---- MODULE Spec2Model ----
(***************************************************************************)
(* MapieRegressor (mapie/estimators.py) and the aggregation helpers        *)
(* phi1D / phi2D (mapie/utils.py).                                         *)
(*                                                                         *)
(* One MapieRegressor instance is modelled: its constructor parameters,    *)
(* its fitted attributes and the calls fit, predict and set_params, made   *)
(* by a caller who holds one training set.                                 *)
(* Real numbers are exact rationals held as integers in units of 1/Scale:  *)
(* a label v is the integer v * Scale, and every least-squares prediction  *)
(* on the modelled data is an integer in that unit.                        *)
(***************************************************************************)
EXTENDS Integers, Sequences, FiniteSets, TLC

VARIABLES
    estimator,          \* self.estimator: "None", "LinearRegression" or "UserRegressor"
    alpha,              \* self.alpha as <<numerator, denominator>>
    method,             \* self.method
    n_splits,           \* self.n_splits
    shuffle,            \* self.shuffle
    return_pred,        \* self.return_pred
    random_state,       \* self.random_state: <<>> is None, <<s>> a seed
    single_estimator_,  \* <<>> while the attribute is absent, else <<model>>
    estimators_,        \* <<>> while absent, else <<sequence of fold models>>
    k_,                 \* <<>> while absent, else <<fold id of every row>>
    residuals_,         \* <<>> while absent, else <<residual of every row>>
    X_train,            \* the training features the caller passes to fit
    y_train,            \* the training labels the caller passes to fit
    ret,                \* what the last call did and returned
    fitlog,             \* history of the last fit call that passed _check_parameters,
                        \* forgotten when a parameter is set again
    phiIn,              \* the arguments of the last phi2D call
    phiOut              \* what that call returned

config == <<estimator, alpha, method, n_splits, shuffle, return_pred, random_state>>
fitted == <<single_estimator_, estimators_, k_, residuals_>>
vars == <<estimator, alpha, method, n_splits, shuffle, return_pred, random_state,
          single_estimator_, estimators_, k_, residuals_, X_train, y_train,
          ret, fitlog, phiIn, phiOut>>

(***************************************************************************)
(* Bounds of the model.                                                    *)
(***************************************************************************)
MaxN == 3
MaxM == 2

Labels == {0, 1}
\* The test rows a caller asks about: the first m of these, m in 1..MaxM.
TestRows == <<3, 0, 1, 2, 4>>
\* alpha is held as <<numerator, denominator>>; 0 is outside (0, 1).
Alphas == {<<0, 1>>, <<1, 4>>, <<1, 2>>, <<3, 4>>}
SplitCounts == {2}

(***************************************************************************)
(* Arithmetic helpers.                                                     *)
(***************************************************************************)
Abs(v) == IF v < 0 THEN -v ELSE v

RECURSIVE SetSum(_, _)
SetSum(S, f) ==
    IF S = {} THEN 0
    ELSE LET e == CHOOSE e \in S : TRUE IN f[e] + SetSum(S \ {e}, f)

\* np.max where line 249 takes np.min.
SeqMin_Max(s) == CHOOSE v \in {s[i] : i \in 1..Len(s)} : \A j \in 1..Len(s) : v >= s[j]

SeqMin(s) == CHOOSE v \in {s[i] : i \in 1..Len(s)} : \A j \in 1..Len(s) : v <= s[j]
SeqMax(s) == CHOOSE v \in {s[i] : i \in 1..Len(s)} : \A j \in 1..Len(s) : v >= s[j]

Sorted(s) == SortSeq(s, LAMBDA a, b : a < b)

(***************************************************************************)
(* The training features: row i of X holds the single feature i - 1.       *)
(***************************************************************************)
Features(n) == [i \in 1..n |-> i - 1]

\* n * sum(x^2) - sum(x)^2 over the rows S, the determinant of the normal
\* equations of a least-squares line through them.  It equals the sum of
\* (x_i - x_j)^2 over the pairs i < j of S, counted here as a set's size.
Det(S) ==
    Cardinality({t \in S \X S \X (1..(MaxN * MaxN)) :
                    t[1] < t[2] /\ t[3] <= (t[2] - t[1]) * (t[2] - t[1])})

Divisors == {IF Det(S) = 0 THEN Cardinality(S) ELSE Det(S) : S \in SUBSET (1..MaxN) \ {{}}}

\* Every real number of the model is an integer multiple of 1 / Scale: twice
\* the least common multiple of the divisors a fit on any rows divides by
\* (twice, for the median of an even number of predictions).
Scale ==
    2 * (CHOOSE m \in 1..(MaxN * MaxN * MaxN * MaxN * MaxN * MaxN) :
            \A d \in Divisors : m % d = 0)

(***************************************************************************)
(* The base estimator: sklearn's LinearRegression on one feature, in exact *)
(* arithmetic.  A fitted model keeps its coefficients; train, the rows it  *)
(* was fitted on, is history kept for the properties.                      *)
(***************************************************************************)
LinearRegressionFit(X, y, S) ==
    LET n   == Cardinality(S)
        sx  == SetSum(S, [i \in S |-> X[i]])
        sy  == SetSum(S, [i \in S |-> y[i]])
        sxx == SetSum(S, [i \in S |-> X[i] * X[i]])
        sxy == SetSum(S, [i \in S |-> X[i] * y[i]])
        d   == n * sxx - sx * sx
    IN  IF d = 0
        THEN [train |-> S, coef |-> 0, intercept |-> (Scale * sy) \div n]
        ELSE [train |-> S,
              coef |-> (Scale * (n * sxy - sx * sy)) \div d,
              intercept |-> (Scale * (sy * sxx - sx * sxy)) \div d]

\* e.predict(X) for one row with feature x.
ModelPredict(e, x) == e.intercept + e.coef * x

\* e.predict(X) for every row of X.
PredictAll(e, X) == [i \in 1..Len(X) |-> ModelPredict(e, X[i])]

(***************************************************************************)
(* The splitters of sklearn.model_selection, rows numbered from 1.         *)
(***************************************************************************)
Perms == [n \in 1..MaxN |->
             {p \in [1..n -> 1..n] : \A i, j \in 1..n : p[i] = p[j] => i = j}]

Identity(n) == [i \in 1..n |-> i]

\* KFold(n_splits = k).split on n rows whose (shuffled) order is perm: fold i
\* validates n \div k rows, the first n % k folds one more.
KFoldSplit(n, k, perm) ==
    [i \in 1..k |->
        LET size  == (n \div k) + (IF i <= n % k THEN 1 ELSE 0)
            start == (i - 1) * (n \div k) + (IF i - 1 <= n % k THEN i - 1 ELSE n % k)
            val   == {perm[j] : j \in (start + 1)..(start + size)}
        IN  [train |-> (1..n) \ val, val |-> val]]

\* LeaveOneOut().split on n rows.
LeaveOneOutSplit(n) == [i \in 1..n |-> [train |-> (1..n) \ {i}, val |-> {i}]]

(***************************************************************************)
(* MapieRegressor: the class constants and the parameter checks.           *)
(***************************************************************************)
valid_methods ==
    {"naive", "jackknife", "jackknife_plus", "jackknife_minmax", "cv", "cv_plus", "cv_minmax"}

valid_return_preds == {"single", "median"}

Methods == valid_methods \cup {"bogus"}
ReturnPreds == valid_return_preds \cup {"mean"}

IsCV(m) == m \in {"cv", "cv_plus", "cv_minmax"}
IsJackknife(m) == m \in {"jackknife", "jackknife_plus", "jackknife_minmax"}
EndsWithPlus(m) == m \in {"jackknife_plus", "cv_plus"}
EndsWithMinmax(m) == m \in {"jackknife_minmax", "cv_minmax"}

AlphaInRange == 0 < alpha[1] /\ alpha[1] < alpha[2]

\* A _check_parameters without the return_pred check (lines 146-147 removed).
ParametersValid_NoReturnPredCheck ==
    /\ AlphaInRange
    /\ method \in valid_methods

\* _check_parameters: TRUE when none of its three checks raises.
ParametersValid ==
    /\ AlphaInRange
    /\ method \in valid_methods
    /\ return_pred \in valid_return_preds

\* _select_cv: the splitter's folds on n rows, or the error it raises.  KFold
\* refuses more splits than rows and LeaveOneOut a single row, both when split
\* is first iterated.
SelectCV(m, n, perm) ==
    IF IsCV(m)
    THEN IF n_splits > n
         THEN [error |-> TRUE, folds |-> <<>>]
         ELSE [error |-> FALSE, folds |-> KFoldSplit(n, n_splits, perm)]
    ELSE IF IsJackknife(m)
    THEN IF n <= 1
         THEN [error |-> TRUE, folds |-> <<>>]
         ELSE [error |-> FALSE, folds |-> LeaveOneOutSplit(n)]
    ELSE [error |-> TRUE, folds |-> <<>>]

\* The orders cv.split may visit the rows in: any when KFold shuffles.  Orders
\* that differ only inside a fold give the same folds: the one with each
\* fold's rows ascending stands for them.
FoldOf(j, n, k) ==
    CHOOSE i \in 1..k :
        LET start == (i - 1) * (n \div k) + (IF i - 1 <= n % k THEN i - 1 ELSE n % k)
            size  == (n \div k) + (IF i <= n % k THEN 1 ELSE 0)
        IN  start < j /\ j <= start + size

ShuffledOrders ==
    [n \in 1..MaxN |-> [k \in SplitCounts |->
        IF k > n THEN {Identity(n)}
        ELSE {p \in Perms[n] :
                \A i, j \in 1..n : (i < j /\ FoldOf(i, n, k) = FoldOf(j, n, k)) => p[i] < p[j]}]]

SplitOrders(n) ==
    IF IsCV(method) /\ shuffle THEN ShuffledOrders[n][n_splits] ELSE {Identity(n)}

(***************************************************************************)
(* fit, lines 200-207: the loop over the folds.  acc carries estimators_,  *)
(* the entries of k_ and y_pred written so far (kw, yw: how often each row *)
(* was written) and whether a fold's training raised.                      *)
(***************************************************************************)
\* A line 204 that records the fold number on the first validation row only:
\* k_[val[0]] = k.
WriteK_FirstRowOnly(acc, val, k) ==
    LET first == CHOOSE i \in val : \A j \in val : i <= j
    IN  [acc EXCEPT !.kv = [i \in DOMAIN acc.kv |-> IF i = first THEN k ELSE acc.kv[i]],
                    !.kw = [i \in DOMAIN acc.kw |-> IF i = first THEN acc.kw[i] + 1 ELSE acc.kw[i]]]

WriteK(acc, val, k) ==
    [acc EXCEPT !.kv = [i \in DOMAIN acc.kv |-> IF i \in val THEN k ELSE acc.kv[i]],
                !.kw = [i \in DOMAIN acc.kw |-> IF i \in val THEN acc.kw[i] + 1 ELSE acc.kw[i]]]

WriteYPred(acc, val, e, X) ==
    [acc EXCEPT !.yv = [i \in DOMAIN acc.yv |->
                          IF i \in val THEN ModelPredict(e, X[i]) ELSE acc.yv[i]],
                !.yw = [i \in DOMAIN acc.yw |-> IF i \in val THEN acc.yw[i] + 1 ELSE acc.yw[i]]]

RECURSIVE FoldLoop(_, _, _, _, _, _)
FoldLoop(i, folds, X, y, raiseFold, acc) ==
    IF i > Len(folds) THEN acc
    ELSE LET a1 == WriteK(acc, folds[i].val, i - 1)
         IN  IF raiseFold = i
             THEN [a1 EXCEPT !.raised = TRUE, !.trained = @ + 1]
             ELSE LET e  == LinearRegressionFit(X, y, folds[i].train)
                      a2 == [a1 EXCEPT !.est = Append(@, e), !.trained = @ + 1]
                  IN  FoldLoop(i + 1, folds, X, y, raiseFold, WriteYPred(a2, folds[i].val, e, X))

EmptyAcc(n) ==
    [est |-> <<>>, kv |-> [i \in 1..n |-> 0], kw |-> [i \in 1..n |-> 0],
     yv |-> [i \in 1..n |-> 0], yw |-> [i \in 1..n |-> 0], raised |-> FALSE, trained |-> 0]

\* np.empty_like: an entry never written holds whatever the memory held.
UninitInts == {0, 7}
UninitFloats == {-Scale, 5 * Scale}

\* self.residuals_ = np.abs(y - y_pred)
\* A line 208 without np.abs: the signed errors y - y_pred.
AbsResiduals_Signed(y, y_pred) == [i \in 1..Len(y) |-> y[i] * Scale - y_pred[i]]

AbsResiduals(y, y_pred) == [i \in 1..Len(y) |-> Abs(y[i] * Scale - y_pred[i])]

(***************************************************************************)
(* What a call leaves in ret and fitlog.                                   *)
(***************************************************************************)
Ret(op, status, trained, X, table) ==
    [op |-> op, status |-> status, trained |-> trained, X |-> X, table |-> table]

FitLog(status, folds, acc) ==
    [status |-> status, method |-> method, folds |-> folds, kw |-> acc.kw, yw |-> acc.yw]

NoFitLog ==
    [status |-> "none", method |-> "none", folds |-> <<>>, kw |-> <<>>, yw |-> <<>>]

\* The rows of a vector of write counts that were never written.
Unwritten(w) == {i \in DOMAIN w : w[i] = 0}

\* A partly written vector, its unwritten entries filled from g.
Filled(v, w, g) == [i \in DOMAIN v |-> IF w[i] = 0 THEN g[i] ELSE v[i]]

\* clone(self.estimator).fit can raise only in a regressor the caller supplied:
\* LinearRegression fits any finite data.
MayRaise == estimator = "UserRegressor"

\* line 148-149: the estimator once _check_parameters has returned.
DefaultedEstimator == IF estimator = "None" THEN "LinearRegression" ELSE estimator

(***************************************************************************)
(* fit(X, y), lines 193-209.  order is the order cv.split visits the rows  *)
(* in; raiseFold = i makes the training of fold i raise.                   *)
(***************************************************************************)
FitRejected ==
    /\ ~ParametersValid
    /\ ret' = Ret("fit", "ValueError", 0, <<>>, <<>>)
    /\ UNCHANGED <<config, fitted, fitlog>>

FitSingleRaises(X, y) ==
    /\ ParametersValid
    /\ MayRaise
    /\ estimator' = DefaultedEstimator
    /\ ret' = Ret("fit", "FitError", 1, <<>>, <<>>)
    /\ fitlog' = FitLog("raised", <<>>, EmptyAcc(Len(y)))
    /\ UNCHANGED <<alpha, method, n_splits, shuffle, return_pred, random_state, fitted>>

FitNaive(X, y) ==
    /\ ParametersValid
    /\ method = "naive"
    /\ estimator' = DefaultedEstimator
    /\ LET single == LinearRegressionFit(X, y, 1..Len(y))
       IN  /\ single_estimator_' = <<single>>
           /\ residuals_' = <<AbsResiduals(y, PredictAll(single, X))>>
    /\ ret' = Ret("fit", "ok", 1, <<>>, <<>>)
    /\ fitlog' = FitLog("ok", <<>>, EmptyAcc(Len(y)))
    /\ UNCHANGED <<alpha, method, n_splits, shuffle, return_pred, random_state,
                   estimators_, k_>>

FitFolds(X, y, order, raiseFold) ==
    /\ ParametersValid
    /\ method # "naive"
    /\ raiseFold # 0 => MayRaise
    /\ estimator' = DefaultedEstimator
    /\ single_estimator_' = <<LinearRegressionFit(X, y, 1..Len(y))>>
    /\ random_state' = IF IsCV(method) /\ ~shuffle THEN <<>> ELSE random_state
    /\ LET n   == Len(y)
           cv  == SelectCV(method, n, order)
           acc == FoldLoop(1, cv.folds, X, y, raiseFold, EmptyAcc(n))
       IN  /\ raiseFold <= Len(cv.folds)
           /\ \E gk \in [Unwritten(acc.kw) -> UninitInts],
                 gy \in [(IF cv.error \/ acc.raised THEN {} ELSE Unwritten(acc.yw))
                           -> UninitFloats] :
                /\ estimators_' = <<acc.est>>
                /\ k_' = <<Filled(acc.kv, acc.kw, gk)>>
                /\ IF cv.error
                   THEN /\ ret' = Ret("fit", "ValueError", 1, <<>>, <<>>)
                        /\ fitlog' = FitLog("raised", cv.folds, acc)
                        /\ UNCHANGED residuals_
                   ELSE IF acc.raised
                   THEN /\ ret' = Ret("fit", "FitError", 1 + acc.trained, <<>>, <<>>)
                        /\ fitlog' = FitLog("raised", cv.folds, acc)
                        /\ UNCHANGED residuals_
                   ELSE /\ residuals_' = <<AbsResiduals(y, Filled(acc.yv, acc.yw, gy))>>
                        /\ ret' = Ret("fit", "ok", 1 + acc.trained, <<>>, <<>>)
                        /\ fitlog' = FitLog("ok", cv.folds, acc)
    /\ UNCHANGED <<alpha, method, n_splits, shuffle, return_pred>>

Fit ==
    /\ \/ FitRejected
       \/ FitSingleRaises(X_train, y_train)
       \/ FitNaive(X_train, y_train)
       \/ \E order \in SplitOrders(Len(y_train)), raiseFold \in 0..Len(y_train) :
              FitFolds(X_train, y_train, order, raiseFold)
    /\ UNCHANGED <<X_train, y_train>>

(***************************************************************************)
(* numpy, as predict uses it.                                              *)
(***************************************************************************)
\* np.quantile raises unless 0 <= q <= 1.
QuantileDefined(q) == 0 <= q[1] /\ q[1] <= q[2]

\* np.quantile(v, q, interpolation="higher") where line 253 asks for "lower".
QuantileLower_Higher(v, q) == Sorted(v)[((Len(v) - 1) * q[1] + q[2] - 1) \div q[2] + 1]

\* np.quantile(v, q, interpolation="lower"): the value at rank
\* floor(q * (n - 1)) of the sorted values.
QuantileLower(v, q) == Sorted(v)[((Len(v) - 1) * q[1]) \div q[2] + 1]

\* np.quantile(v, q, interpolation="lower") where lines 236 and 254 ask for
\* "higher".
QuantileHigher_Lower(v, q) == Sorted(v)[((Len(v) - 1) * q[1]) \div q[2] + 1]

\* np.quantile(v, q, interpolation="higher"): rank ceil(q * (n - 1)).
QuantileHigher(v, q) == Sorted(v)[((Len(v) - 1) * q[1] + q[2] - 1) \div q[2] + 1]

\* 1 - self.alpha
OneMinus(a) == <<a[2] - a[1], a[2]>>

\* np.median of one row.
Median(v) ==
    LET s == Sorted(v)
        n == Len(v)
    IN  IF n % 2 = 1 THEN s[(n + 1) \div 2] ELSE (s[n \div 2] + s[n \div 2 + 1]) \div 2

\* y_pred_multi[:, self.k_]: numpy takes column k for 0 <= k < width and
\* column width + k for -width <= k < 0, and raises IndexError otherwise.
IndexInRange(k, width) == -width <= k /\ k < width
Column(k, width) == IF k >= 0 THEN k + 1 ELSE width + k + 1
TakeColumns(row, ks) == [j \in 1..Len(ks) |-> row[Column(ks[j], Len(row))]]

\* Broadcasting a row of c columns against the r residuals.
Broadcastable(c, r) == c = r \/ c = 1 \/ r = 1
BroadcastWidth(c, r) == IF c >= r THEN c ELSE r
MinusResiduals(row, res) ==
    [j \in 1..BroadcastWidth(Len(row), Len(res)) |->
        row[IF Len(row) = 1 THEN 1 ELSE j] - res[IF Len(res) = 1 THEN 1 ELSE j]]
PlusResiduals(row, res) ==
    [j \in 1..BroadcastWidth(Len(row), Len(res)) |->
        row[IF Len(row) = 1 THEN 1 ELSE j] + res[IF Len(res) = 1 THEN 1 ELSE j]]

Raised(status) == [status |-> status, table |-> <<>>]
Returned(table) == [status |-> "ok", table |-> table]

(***************************************************************************)
(* predict(X), lines 232-255: the table it returns, one <<center, lower,   *)
(* upper>> per test row, or the exception it raises.                       *)
(***************************************************************************)
\* Lines 237-238 with the signs exchanged: y_pred + quantile as the lower
\* bound and y_pred - quantile as the upper one.
PredictResidualBand_Swapped(y_pred) ==
    IF residuals_ = <<>> THEN Raised("AttributeError")
    ELSE IF ~QuantileDefined(OneMinus(alpha)) THEN Raised("ValueError")
    ELSE LET quantile == QuantileHigher(residuals_[1], OneMinus(alpha))
         IN  Returned([i \in 1..Len(y_pred) |->
                         <<y_pred[i], y_pred[i] + quantile, y_pred[i] - quantile>>])

\* lines 236-238
PredictResidualBand(y_pred) ==
    IF residuals_ = <<>> THEN Raised("AttributeError")
    ELSE IF ~QuantileDefined(OneMinus(alpha)) THEN Raised("ValueError")
    ELSE LET quantile == QuantileHigher(residuals_[1], OneMinus(alpha))
         IN  Returned([i \in 1..Len(y_pred) |->
                         <<y_pred[i], y_pred[i] - quantile, y_pred[i] + quantile>>])

\* lines 245-254 when self.method is m, given the centers and the
\* (re-indexed) fold predictions
PredictBoundsFor(m, center, multi) ==
    IF ~(EndsWithPlus(m) \/ EndsWithMinmax(m)) THEN Raised("ValueError")
    ELSE IF residuals_ = <<>> THEN Raised("AttributeError")
    ELSE IF EndsWithPlus(m) /\ ~Broadcastable(Len(multi[1]), Len(residuals_[1]))
    THEN Raised("ValueError")
    ELSE IF ~QuantileDefined(alpha) \/ ~QuantileDefined(OneMinus(alpha))
    THEN Raised("ValueError")
    ELSE LET res == residuals_[1]
             lower_bounds == [i \in 1..Len(multi) |->
                 IF EndsWithPlus(m) THEN MinusResiduals(multi[i], res)
                 ELSE MinusResiduals(<<SeqMin(multi[i])>>, res)]
             upper_bounds == [i \in 1..Len(multi) |->
                 IF EndsWithPlus(m) THEN PlusResiduals(multi[i], res)
                 ELSE PlusResiduals(<<SeqMax(multi[i])>>, res)]
         IN  Returned([i \in 1..Len(multi) |->
                         <<center[i],
                           QuantileLower(lower_bounds[i], alpha),
                           QuantileHigher(upper_bounds[i], OneMinus(alpha))>>])

\* lines 245-254 with the method the instance holds
PredictBounds(center, multi) == PredictBoundsFor(method, center, multi)

\* lines 240-244 when self.method is m, then the bounds
PredictEnsembleFor(m, X, y_pred) ==
    IF estimators_ = <<>> THEN Raised("AttributeError")
    ELSE IF Len(estimators_[1]) = 0 THEN Raised("ValueError")
    ELSE LET es == estimators_[1]
             y_pred_multi == [i \in 1..Len(X) |->
                                [c \in 1..Len(es) |-> ModelPredict(es[c], X[i])]]
             center == IF return_pred = "median"
                       THEN [i \in 1..Len(X) |-> Median(y_pred_multi[i])]
                       ELSE y_pred
         IN  IF m # "cv_plus" THEN PredictBoundsFor(m, center, y_pred_multi)
             ELSE IF k_ = <<>> THEN Raised("AttributeError")
             ELSE IF \E j \in 1..Len(k_[1]) : ~IndexInRange(k_[1][j], Len(es))
             THEN Raised("IndexError")
             ELSE PredictBoundsFor(m, center,
                                   [i \in 1..Len(X) |-> TakeColumns(y_pred_multi[i], k_[1])])

\* lines 240-254 with the method the instance holds
PredictEnsemble(X, y_pred) == PredictEnsembleFor(method, X, y_pred)

\* lines 232-255 when self.method is m
PredictResultFor(m, X) ==
    IF single_estimator_ = <<>> THEN Raised("NotFittedError")
    ELSE LET y_pred == PredictAll(single_estimator_[1], X)
         IN  IF m \in {"naive", "jackknife", "cv"}
             THEN PredictResidualBand(y_pred)
             ELSE PredictEnsembleFor(m, X, y_pred)

PredictResult(X) == PredictResultFor(method, X)

TestInputs == {SubSeq(TestRows, 1, m) : m \in 1..MaxM}

\* A predict that sorts self.residuals_ in place (ndarray.sort) before it
\* takes the quantile.
Predict_SortsResiduals ==
    /\ \E X \in TestInputs :
           LET r == PredictResult(X)
           IN  ret' = Ret("predict", r.status, 0, X, r.table)
    /\ residuals_' = IF residuals_ = <<>> THEN <<>> ELSE <<Sorted(residuals_[1])>>
    /\ UNCHANGED <<config, single_estimator_, estimators_, k_, fitlog, X_train, y_train>>

Predict ==
    /\ \E X \in TestInputs :
           LET r == PredictResult(X)
           IN  ret' = Ret("predict", r.status, 0, X, r.table)
    /\ UNCHANGED <<config, fitted, fitlog, X_train, y_train>>

(***************************************************************************)
(* set_params: the caller gives alpha, method or return_pred a new value.  *)
(***************************************************************************)
SetParams ==
    /\ \/ alpha' \in Alphas \ {alpha} /\ UNCHANGED <<method, return_pred>>
       \/ method' \in Methods \ {method} /\ UNCHANGED <<alpha, return_pred>>
       \/ return_pred' \in ReturnPreds \ {return_pred} /\ UNCHANGED <<alpha, method>>
    /\ ret' = Ret("set_params", "ok", 0, <<>>, <<>>)
    /\ fitlog' = NoFitLog
    /\ UNCHANGED <<estimator, n_splits, shuffle, random_state, fitted, X_train, y_train>>

(***************************************************************************)
(* phi1D and phi2D (utils.py).  A number is <<v>> and NaN is <<>>.         *)
(***************************************************************************)
NaN == <<>>
IsNaN(v) == v = <<>>

\* numpy's product of two entries: NaN if either is.
\* x * B with the NaN entries read as 0 (np.nan_to_num before the product).
Times_NanAsZero(a, b) == IF IsNaN(a) \/ IsNaN(b) THEN <<0>> ELSE <<a[1] * b[1]>>

Times(a, b) == IF IsNaN(a) \/ IsNaN(b) THEN NaN ELSE <<a[1] * b[1]>>

\* The entries of a row that are numbers, in order.
RECURSIVE DropNaN(_)
DropNaN(row) ==
    IF row = <<>> THEN <<>>
    ELSE IF IsNaN(Head(row)) THEN DropNaN(Tail(row))
    ELSE <<Head(row)[1]>> \o DropNaN(Tail(row))

RECURSIVE SeqSum(_)
SeqSum(s) == IF s = <<>> THEN 0 ELSE Head(s) + SeqSum(Tail(s))

\* fun on one row: np.nansum, np.nanmax or np.nanmin.  On a row of NaNs
\* nansum is 0 and nanmax, nanmin are NaN.
NanReduce(fun, row) ==
    LET s == DropNaN(row)
    IN  IF fun = "nansum" THEN <<SeqSum(s)>>
        ELSE IF s = <<>> THEN NaN
        ELSE IF fun = "nanmax" THEN <<SeqMax(s)>>
        ELSE <<SeqMin(s)>>

\* fun(M) with axis = 1: one value per row of M.
ApplyRows(fun, M) == [r \in 1..Len(M) |-> NanReduce(fun, M[r])]

\* x * B: x broadcast against every row of B.
RowTimes(x, B) == [r \in 1..Len(B) |-> [j \in 1..Len(x) |-> Times(x[j], B[r][j])]]

phi1D(x, B, fun) == ApplyRows(fun, RowTimes(x, B))

\* np.apply_along_axis(phi1D, axis=1, arr=A, B=B, fun=fun)
phi2D(A, B, fun) == [a \in 1..Len(A) |-> phi1D(A[a], B, fun)]

PhiFuns == {"nansum", "nanmax", "nanmin"}
PhiCols == {1, 2}
PhiAEntries == {NaN, <<1>>, <<2>>}
PhiBEntries == {NaN, <<1>>}
MaxPhiRows == 2

PhiInputs ==
    UNION {[A : [1..ra -> [1..c -> PhiAEntries]],
            B : [1..rb -> [1..c -> PhiBEntries]],
            fun : PhiFuns] : ra \in 1..MaxPhiRows, rb \in 1..MaxPhiRows, c \in PhiCols}

CallPhi2D ==
    /\ phiIn # <<>>
    /\ phiOut = <<>>
    /\ phiOut' = <<phi2D(phiIn[1].A, phiIn[1].B, phiIn[1].fun)>>
    /\ UNCHANGED <<config, fitted, X_train, y_train, ret, fitlog, phiIn>>

(***************************************************************************)
(* Training sets: n rows, row i with feature i - 1 and any label.          *)
(***************************************************************************)
Datasets == UNION {[1..n -> Labels] : n \in 1..MaxN}

\* One training set of every size, its labels alternating.
AlternatingDatasets == {d \in Datasets : \A i \in DOMAIN d : d[i] = i % 2}

Fresh ==
    /\ single_estimator_ = <<>>
    /\ estimators_ = <<>>
    /\ k_ = <<>>
    /\ residuals_ = <<>>
    /\ ret = Ret("init", "ok", 0, <<>>, <<>>)
    /\ fitlog = NoFitLog

(***************************************************************************)
(* Spec: an instance constructed with valid parameters around the default  *)
(* estimator, fitted and queried any number of times.                      *)
(***************************************************************************)
Init ==
    /\ estimator = "None"
    /\ alpha \in {a \in Alphas : 0 < a[1] /\ a[1] < a[2]}
    /\ method \in valid_methods
    /\ n_splits \in SplitCounts
    /\ shuffle \in BOOLEAN
    /\ return_pred \in valid_return_preds
    /\ random_state = <<>>
    /\ y_train \in Datasets
    /\ X_train = Features(Len(y_train))
    /\ Fresh
    /\ phiIn = <<>>
    /\ phiOut = <<>>

Next ==
    \/ Fit /\ UNCHANGED <<phiIn, phiOut>>
    \/ Predict /\ UNCHANGED <<phiIn, phiOut>>

Spec == Init /\ [][Next]_vars

(***************************************************************************)
(* SpecLifecycle: an instance constructed with any parameters around a     *)
(* regressor of the caller's whose training may raise; the caller sets     *)
(* parameters and fits again, any number of times.                         *)
(***************************************************************************)
InitLifecycle ==
    /\ estimator = "UserRegressor"
    /\ alpha \in Alphas
    /\ method \in Methods
    /\ n_splits \in SplitCounts
    /\ shuffle = FALSE
    /\ return_pred \in ReturnPreds
    /\ random_state = <<>>
    /\ y_train \in AlternatingDatasets
    /\ X_train = Features(Len(y_train))
    /\ Fresh
    /\ phiIn = <<>>
    /\ phiOut = <<>>

NextLifecycle ==
    \/ Fit /\ UNCHANGED <<phiIn, phiOut>>
    \/ SetParams /\ UNCHANGED <<phiIn, phiOut>>

SpecLifecycle == InitLifecycle /\ [][NextLifecycle]_vars

(***************************************************************************)
(* SpecPhi: one call of phi2D on any small A, B and fun.                   *)
(***************************************************************************)
InitPhi ==
    /\ estimator = "None"
    /\ alpha = <<1, 2>>
    /\ method = "naive"
    /\ n_splits \in SplitCounts
    /\ shuffle = FALSE
    /\ return_pred = "single"
    /\ random_state = <<>>
    /\ y_train = <<0>>
    /\ X_train = Features(1)
    /\ Fresh
    /\ phiIn \in {<<in>> : in \in PhiInputs}
    /\ phiOut = <<>>

NextPhi == CallPhi2D

SpecPhi == InitPhi /\ [][NextPhi]_vars

(***************************************************************************)
(* Vocabulary of the properties.                                           *)
(***************************************************************************)
\* The last fit call returned, and the parameters are those it ran with.
FitOK == fitlog.status = "ok" /\ fitlog.method = method

\* The last call was a predict call that returned a table.
PredictReturned == ret.op = "predict" /\ ret.status = "ok"

NTrain == Len(y_train)

\* n >= 1 / alpha and n >= 1 / (1 - alpha)
EnoughSamples == NTrain * alpha[1] >= alpha[2] /\ NTrain * (alpha[2] - alpha[1]) >= alpha[2]

Ordered(row) == row[2] <= row[1] /\ row[1] <= row[3]

\* q is the value at rank h, counted from 0, among the values of v in
\* ascending order.
AtRank(v, q, h) ==
    /\ \E j \in DOMAIN v : v[j] = q
    /\ Cardinality({j \in DOMAIN v : v[j] < q}) <= h
    /\ Cardinality({j \in DOMAIN v : v[j] <= q}) > h

\* The least integer not below p * (n - 1), and the greatest not above it.
HigherRank(n, p) ==
    CHOOSE h \in 0..(n - 1) : h * p[2] >= (n - 1) * p[1] /\ (h - 1) * p[2] < (n - 1) * p[1]
LowerRank(n, p) ==
    CHOOSE h \in 0..(n - 1) : h * p[2] <= (n - 1) * p[1] /\ (h + 1) * p[2] > (n - 1) * p[1]

(***************************************************************************)
(* C1.  Every row predict returns has lower <= center <= upper.            *)
(***************************************************************************)
\* C1 as stated, on the calls with enough training rows for alpha: every row
\* [center, lower, upper] returned after a successful fit is ordered, for
\* every method and return_pred.
C1_AllMethodsOrdered ==
    (PredictReturned /\ FitOK /\ EnoughSamples) =>
        \A i \in 1..Len(ret.table) : Ordered(ret.table[i])

\* C1, amended: every row returned after a successful fit satisfies
\* lower <= center <= upper when the method is naive, jackknife or cv, or a
\* minmax method with return_pred = median.
C1_ResidualBandOrdered ==
    (/\ PredictReturned
     /\ FitOK
     /\ \/ method \in {"naive", "jackknife", "cv"}
        \/ EndsWithMinmax(method) /\ return_pred = "median") =>
        \A i \in 1..Len(ret.table) : Ordered(ret.table[i])

C1_Witness ==
    /\ PredictReturned
    /\ FitOK
    /\ method = "jackknife"
    /\ Len(ret.table) >= 2
    /\ \A i \in 1..Len(ret.table) :
          ret.table[i][2] < ret.table[i][1] /\ ret.table[i][1] < ret.table[i][3]

(***************************************************************************)
(* C2.  After a successful fit with a non-naive method the folds partition *)
(* the rows and k_ names each row's fold.                                  *)
(***************************************************************************)
\* C2: k_ has one entry per training row; the validation sets of the folds
\* are pairwise disjoint and cover the rows; k_[i] is the fold that validates
\* row i; there is one model per fold; a jackknife method has n folds of one
\* row each.
C2_FoldPartition ==
    (FitOK /\ method # "naive") =>
        LET folds == fitlog.folds
            nf    == Len(folds)
        IN  /\ k_ # <<>>
            /\ estimators_ # <<>>
            /\ Len(k_[1]) = NTrain
            /\ Len(estimators_[1]) = nf
            /\ \A f, g \in 1..nf : f # g => folds[f].val \cap folds[g].val = {}
            /\ UNION {folds[f].val : f \in 1..nf} = 1..NTrain
            /\ \A i \in 1..NTrain : \A f \in 1..nf : (k_[1][i] = f - 1) <=> (i \in folds[f].val)
            /\ IsJackknife(method) =>
                  /\ nf = NTrain
                  /\ \A f \in 1..nf : Cardinality(folds[f].val) = 1

C2_Witness ==
    /\ FitOK
    /\ method = "cv_plus"
    /\ shuffle
    /\ NTrain = 3
    /\ k_ = <<<<1, 0, 0>>>>

(***************************************************************************)
(* C3.  Too few training rows for alpha are refused.                       *)
(***************************************************************************)
\* C3: with n < 1 / alpha or n < 1 / (1 - alpha) neither fit nor predict
\* returns normally.
C3_TooFewSamplesRejected ==
    (ret.op \in {"fit", "predict"} /\ ~EnoughSamples) => ret.status # "ok"

(***************************************************************************)
(* C4.  A fit with invalid parameters trains nothing and changes nothing.  *)
(***************************************************************************)
\* C4: a fit call made with alpha outside (0, 1), an unknown method or an
\* unknown return_pred raises ValueError before any training and leaves
\* single_estimator_, estimators_, k_ and residuals_ as they were.
C4_InvalidFitChangesNothing ==
    [][(/\ ret'.op = "fit"
        /\ \/ ~(0 < alpha[1] /\ alpha[1] < alpha[2])
           \/ method \notin valid_methods
           \/ return_pred \notin valid_return_preds) =>
          (/\ ret'.status = "ValueError"
           /\ ret'.trained = 0
           /\ fitted' = fitted)]_vars

C4_Witness ==
    /\ ret.op = "fit"
    /\ ret.status = "ValueError"
    /\ ret.trained = 0
    /\ return_pred \notin valid_return_preds
    /\ single_estimator_ # <<>>
    /\ residuals_ # <<>>

(***************************************************************************)
(* C5.  fit is atomic with respect to the fitted attributes.               *)
(***************************************************************************)
\* What one successful fit with method m and split order `order` leaves on
\* an instance that had no fitted attribute.
ProductOfFit(m, order) ==
    LET n      == NTrain
        single == LinearRegressionFit(X_train, y_train, 1..n)
        cv     == SelectCV(m, n, order)
        acc    == FoldLoop(1, cv.folds, X_train, y_train, 0, EmptyAcc(n))
    IN  IF m = "naive"
        THEN <<<<single>>, <<>>, <<>>, <<AbsResiduals(y_train, PredictAll(single, X_train))>>>>
        ELSE <<<<single>>, <<acc.est>>, <<acc.kv>>, <<AbsResiduals(y_train, acc.yv)>>>>

\* C5: the fitted attributes are always those of no fit at all or the
\* complete product of one successful fit.
C5_FitAtomic ==
    \/ fitted = <<<<>>, <<>>, <<>>, <<>>>>
    \/ \E m \in valid_methods : \E order \in Perms[NTrain] :
          /\ ~SelectCV(m, NTrain, order).error \/ m = "naive"
          /\ fitted = ProductOfFit(m, order)

(***************************************************************************)
(* C6.  naive, jackknife and cv: one constant band around the single       *)
(* model's prediction.                                                     *)
(***************************************************************************)
\* C6: for naive, jackknife and cv every returned row i is
\* [c, c - q, c + q] with c the prediction of the model trained on all rows
\* and q one residual value, the one at rank ceil((n - 1) * (1 - alpha)) of
\* the n residuals in ascending order, whatever return_pred is.
C6_ConstantBand ==
    (PredictReturned /\ FitOK /\ method \in {"naive", "jackknife", "cv"}) =>
        LET res    == residuals_[1]
            single == single_estimator_[1]
        IN  /\ Len(res) = NTrain
            /\ single.train = 1..NTrain
            /\ Len(ret.table) = Len(ret.X)
            /\ \E q \in {res[j] : j \in DOMAIN res} :
                  /\ AtRank(res, q, HigherRank(NTrain, OneMinus(alpha)))
                  /\ \A i \in 1..Len(ret.X) :
                        LET c == ModelPredict(single, ret.X[i])
                        IN  ret.table[i] = <<c, c - q, c + q>>

C6_Witness ==
    /\ PredictReturned
    /\ FitOK
    /\ method = "cv"
    /\ return_pred = "median"
    /\ NTrain = 3
    /\ Len(ret.X) >= 2
    /\ \E i, j \in 1..3 : residuals_[1][i] # residuals_[1][j]
    /\ ret.table[1][3] - ret.table[1][1] > 0
    /\ ret.table[1][1] # ret.table[2][1]

(***************************************************************************)
(* C7.  The plus methods: quantiles over the leave-one-out predictions.    *)
(***************************************************************************)
\* The model among the fitted fold models whose training rows exclude row j.
ExcludingModel(j) ==
    CHOOSE e \in {estimators_[1][f] : f \in 1..Len(estimators_[1])} : j \notin e.train

\* C7: for jackknife_plus and cv_plus exactly one fold model excludes each
\* training row j, it is the model of fold k_[j], and for every test row i
\* lower is the value at rank floor((n - 1) * alpha) of P_j(i) - r_j and
\* upper the value at rank ceil((n - 1) * (1 - alpha)) of P_j(i) + r_j,
\* j over the n training rows, P_j(i) the prediction of the model excluding j.
C7_PlusQuantiles ==
    (PredictReturned /\ FitOK /\ EndsWithPlus(method)) =>
        LET res == residuals_[1]
            es  == estimators_[1]
            P(i) == [j \in 1..NTrain |-> ModelPredict(ExcludingModel(j), ret.X[i])]
        IN  /\ Len(res) = NTrain
            /\ Len(ret.table) = Len(ret.X)
            /\ \A j \in 1..NTrain :
                  /\ Cardinality({f \in 1..Len(es) : j \notin es[f].train}) = 1
                  /\ j \notin es[k_[1][j] + 1].train
            /\ \A i \in 1..Len(ret.X) :
                  /\ AtRank([j \in 1..NTrain |-> P(i)[j] - res[j]], ret.table[i][2],
                            LowerRank(NTrain, alpha))
                  /\ AtRank([j \in 1..NTrain |-> P(i)[j] + res[j]], ret.table[i][3],
                            HigherRank(NTrain, OneMinus(alpha)))

C7_Witness ==
    /\ PredictReturned
    /\ FitOK
    /\ method = "cv_plus"
    /\ shuffle
    /\ NTrain = 3
    /\ k_[1] # <<0, 0, 1>>
    /\ estimators_[1][1] # estimators_[1][2]
    /\ \E i, j \in 1..3 : residuals_[1][i] # residuals_[1][j]
    /\ ret.table[1][2] < ret.table[1][3]

(***************************************************************************)
(* C8.  residuals_ are the out-of-fold absolute errors.                    *)
(***************************************************************************)
\* C8: after a successful fit residuals_ has n non-negative entries; for a
\* non-naive method entry i is |y[i] - prediction on row i of the model of
\* fold k_[i]|, that model was not trained on row i, and entry i of the
\* out-of-fold prediction vector was written exactly once.
C8_OutOfFoldResiduals ==
    FitOK =>
        /\ residuals_ # <<>>
        /\ Len(residuals_[1]) = NTrain
        /\ \A i \in 1..NTrain : residuals_[1][i] >= 0
        /\ method # "naive" =>
              \A i \in 1..NTrain :
                 /\ k_[1][i] + 1 \in 1..Len(estimators_[1])
                 /\ LET e == estimators_[1][k_[1][i] + 1]
                    IN  /\ i \notin e.train
                        /\ residuals_[1][i] = Abs(y_train[i] * Scale - ModelPredict(e, X_train[i]))
                 /\ fitlog.yw[i] = 1

C8_Witness ==
    /\ FitOK
    /\ method = "jackknife_minmax"
    /\ NTrain = 3
    /\ \A i \in 1..3 : residuals_[1][i] > 0
    /\ \E i \in 1..3 : y_train[i] * Scale < ModelPredict(estimators_[1][k_[1][i] + 1], X_train[i])

(***************************************************************************)
(* C9.  predict only reads.                                                *)
(***************************************************************************)
\* C9: a predict call leaves single_estimator_, estimators_, k_, residuals_
\* and the parameters unchanged, and what it returned is what a predict call
\* on the same test rows returns in the state it leaves.
C9_PredictReadOnly ==
    [][ret'.op = "predict" =>
          /\ fitted' = fitted
          /\ config' = config
          /\ ret'.status = (PredictResult(ret.X).status)'
          /\ ret'.table = (PredictResult(ret.X).table)']_vars

C9_Witness ==
    /\ PredictReturned
    /\ FitOK
    /\ method = "jackknife_plus"
    /\ Len(ret.X) = MaxM

(***************************************************************************)
(* C10.  phi2D reduces, entry by entry, over the applicable columns.       *)
(***************************************************************************)
\* The reduction of `fun` over the products A[a][j] * B[b][j] at the columns
\* J, as numpy's nan-functions define it on the values that are numbers.
ReduceOver(fun, x, w, J) ==
    LET v == {x[j][1] * w[j][1] : j \in J}
    IN  CASE fun = "nansum" -> <<SetSum(J, [j \in J |-> x[j][1] * w[j][1]])>>
          [] J = {}          -> NaN
          [] fun = "nanmax"  -> <<CHOOSE m \in v : \A u \in v : u <= m>>
          [] fun = "nanmin"  -> <<CHOOSE m \in v : \A u \in v : m <= u>>

\* C10: phi2D(A, B, fun) has one row per row of A and one column per row of
\* B; row a is phi1D(A[a], B, fun); entry (a, b) is the nan-ignoring
\* reduction of the products A[a][j] * B[b][j] over the columns j where
\* B[b][j] is a number, so a column with B[b][j] = NaN never contributes.
C10_Phi2DEntries ==
    phiOut # <<>> =>
        LET A   == phiIn[1].A
            B   == phiIn[1].B
            fun == phiIn[1].fun
            out == phiOut[1]
        IN  /\ Len(out) = Len(A)
            /\ \A a \in 1..Len(A) :
                  /\ Len(out[a]) = Len(B)
                  /\ out[a] = phi1D(A[a], B, fun)
                  /\ \A b \in 1..Len(B) :
                        out[a][b] = ReduceOver(fun, A[a], B[b],
                                               {j \in DOMAIN A[a] : ~IsNaN(B[b][j]) /\ ~IsNaN(A[a][j])})

C10_Witness ==
    /\ phiOut # <<>>
    /\ phiIn[1].fun = "nanmax"
    /\ Len(phiIn[1].A) = 2
    /\ Len(phiIn[1].B) = 2
    /\ phiIn[1].A[1] = <<<<2>>, <<1>>>>
    /\ phiIn[1].B[1] = <<NaN, <<1>>>>
    /\ phiIn[1].B[2] = <<NaN, NaN>>
    /\ phiOut[1][1] = <<<<1>>, NaN>>

(***************************************************************************)
(* C11.  The minmax interval contains the plus interval.                   *)
(***************************************************************************)
\* The minmax method of the family of a plus method.
MinmaxOf(m) == IF m = "jackknife_plus" THEN "jackknife_minmax" ELSE "cv_minmax"

\* C11: after a successful fit with jackknife_plus or cv_plus, the fitted
\* attributes are those a fit with the minmax method of the same family
\* leaves on the same fold partition, and for every test row predict with
\* that minmax method returns lower <= the plus lower and upper >= the plus
\* upper.
C11_MinmaxContainsPlus ==
    (PredictReturned /\ FitOK /\ EndsWithPlus(method)) =>
        LET minmax == PredictResultFor(MinmaxOf(method), ret.X)
        IN  /\ \E order \in SplitOrders(NTrain) :
                  /\ SelectCV(MinmaxOf(method), NTrain, order).folds = fitlog.folds
                  /\ fitted = ProductOfFit(MinmaxOf(method), order)
            /\ minmax.status = "ok"
            /\ Len(minmax.table) = Len(ret.table)
            /\ \A i \in 1..Len(ret.table) :
                  /\ minmax.table[i][2] <= ret.table[i][2]
                  /\ minmax.table[i][3] >= ret.table[i][3]

C11_Witness ==
    /\ PredictReturned
    /\ FitOK
    /\ method = "cv_plus"
    /\ shuffle
    /\ NTrain = 3
    /\ Len(ret.X) >= 2
    /\ LET minmax == PredictResultFor("cv_minmax", ret.X)
       IN  /\ minmax.table[1][2] < ret.table[1][2]
           /\ minmax.table[1][3] > ret.table[1][3]
           /\ ret.table[1][2] < ret.table[1][3]

====
